---- MODULE Spec2Model ----
(***************************************************************************)
(* q2-sample-classifier: the four entry points of classify.py              *)
(* (classify_samples, regress_samples, maturity_index, detect_outliers)    *)
(* and the BooleanSeriesFormat transformers of plugin_setup.py.            *)
(*                                                                         *)
(* The helpers imported from .utilities (classify.py:16-19) are not part   *)
(* of src/; they are modelled from spec.md and marked so in the map.       *)
(***************************************************************************)
EXTENDS Integers, Sequences, FiniteSets, TLC

\* ------------------------------------------------------------------ bounds
\* the number of feature columns of the table
NumFeatures == 2
\* the most data rows of a file handed to sniff
MaxRows == 6
\* the most rows a feature table has
MaxSamples == 2

\* --------------------------------------------------------------- constants
\* range(5) of BooleanSeriesFormat.sniff
SniffRows == 5

\* Python's None
NONE == "<None>"
\* the float NaN pandas puts where it read a missing value
NAN == <<"<NaN>">>

TAB == "\t"
SPACE == " "

\* ------------------------------------------------------------- input sets
\* Sample ids are strings, kept as sequences of characters so that writing,
\* splitting and parsing act on their text.
IdUniverse == { <<"s", "1">>, <<"s", "2">>, <<"N", "A">> }
GroupValues == {"ctl", "trt"}
ControlValues == {"ctl", "trt", "zzz"}
Seeds == {NONE, "seed1"}
\* what an unseeded generator draws from in a run
Entropy == {"os1", "os2"}
\* two runs of one call on the same input, side by side
Runs == {1, 2}
\* what the two runs draw when unseeded; the names of the draws are
\* interchangeable, so the first run's is fixed
EntropyDraws == { d \in [Runs -> Entropy] : d[1] = "os1" }
\* the importance values a fitted estimator may report
ImportanceValues == {1, 2}

\* the estimator names offered to each entry point (a subset of the Choices)
ClassifierChoices == {"RandomForestClassifier", "SVC"}
RegressorChoices == {"RandomForestRegressor", "SVR"}
MaturityChoices == {"RandomForestRegressor", "SVR"}

Features == [i \in 1..NumFeatures |-> i]

\* ---------------------------------------------------------------- helpers
Range(s) == { s[i] : i \in DOMAIN s }

IsInjective(s) == \A i, j \in DOMAIN s : s[i] = s[j] => i = j

Tables == { t \in UNION { [1..n -> IdUniverse] : n \in 1..MaxSamples } : IsInjective(t) }

Metadatas == UNION { [S -> GroupValues] : S \in SUBSET IdUniverse }

RECURSIVE Filter(_, _)
\* the subsequence of s whose elements are in the set keep, in s's order
Filter(s, keep) ==
    IF s = <<>> THEN <<>>
    ELSE IF Head(s) \in keep THEN <<Head(s)>> \o Filter(Tail(s), keep)
         ELSE Filter(Tail(s), keep)

RECURSIVE InsertDesc(_, _, _)
\* x put into the sequence s (sorted by descending w) after every element
\* whose weight is at least w[x]
InsertDesc(s, x, w) ==
    IF s = <<>> THEN <<x>>
    ELSE IF w[Head(s)] >= w[x] THEN <<Head(s)>> \o InsertDesc(Tail(s), x, w)
         ELSE <<x>> \o s

RECURSIVE SortDesc(_, _)
\* s ordered by descending w, ties in s's order
SortDesc(s, w) ==
    IF s = <<>> THEN <<>>
    ELSE InsertDesc(SortDesc(SubSeq(s, 1, Len(s) - 1), w), s[Len(s)], w)

VARIABLES
    entry,        \* the entry point that was called
    pc,           \* the stage the call is in
    stages,       \* the stages the call has entered, in order
    table,        \* the feature table's index: sample ids in row order
    metadata,     \* sample id -> value of the grouping column
    args,         \* the call's parameters
    flags,        \* optimize_feature_selection, calc_feature_importance in use
    setup,        \* what parameter and estimator setup was given
    aligned,      \* the sample ids _load_data kept, in order
    md_control,   \* the ids of the rows the equality filter kept
    train,        \* what split_optimize_classify was given and returned
    rng,          \* run -> the stream each randomized component drew from
    predict_cols, \* the feature columns handed to estimator.predict
    raw_pred,     \* what estimator.predict returned
    y_pred,       \* the per-sample series the call holds
    maz,          \* the ids that got a MAZ score
    report,       \* what the visualizer was given
    error,        \* the exception that ended the call
    file,         \* the lines of the BooleanSeriesFormat file
    sniffed,      \* BooleanSeriesFormat.sniff of the file
    readback      \* the series read back from the file

vars == << entry, pc, stages, table, metadata, args, flags, setup, aligned,
           md_control, train, rng, predict_cols, raw_pred, y_pred, maz,
           report, error, file, sniffed, readback >>

NoArgs == [ estimator |-> NONE, optimize_feature_selection |-> FALSE,
            parameter_tuning |-> FALSE, maz_stats |-> FALSE,
            random_state |-> NONE, control |-> NONE,
            subset_category |-> NONE, subset_value |-> NONE ]

NoTrain == [ called |-> FALSE, rows |-> <<>>,
             optimize_feature_selection |-> FALSE,
             calc_feature_importance |-> FALSE,
             parameter_tuning |-> FALSE, classification |-> FALSE,
             random_state |-> NONE, fitted |-> FALSE,
             fit_cols |-> <<>>, importances |-> <<>> ]

NoSetup == [ called |-> FALSE, classification |-> FALSE, est_random_state |-> NONE ]

NoReport == [ written |-> FALSE, title |-> NONE,
              optimize_feature_selection |-> FALSE, maz_stats |-> FALSE ]

NoSeries == [ index |-> <<>>, values |-> <<>> ]

NoRng == [ r \in Runs |-> [ split |-> NONE, tune |-> NONE, est |-> NONE ] ]

Init ==
    /\ entry = NONE
    /\ pc = "Idle"
    /\ stages = <<"Idle">>
    /\ table = <<>>
    /\ metadata = << >>
    /\ args = NoArgs
    /\ flags = [ optimize_feature_selection |-> FALSE, calc_feature_importance |-> FALSE ]
    /\ setup = NoSetup
    /\ aligned = <<>>
    /\ md_control = <<>>
    /\ train = NoTrain
    /\ rng = NoRng
    /\ predict_cols = <<>>
    /\ raw_pred = << >>
    /\ y_pred = << >>
    /\ maz = {}
    /\ report = NoReport
    /\ error = NONE
    /\ file = <<>>
    /\ sniffed = NONE
    /\ readback = NoSeries

\* ------------------------------------------------- helpers of .utilities
\* estimators without feature_importances (spec.md 3: SVM-style models)
LacksImportances == {"SVC", "SVR"}

HasImportances(name) == name \notin LacksImportances

\* the stream a generator draws from: its seed, or the run's entropy
Stream(seed, e) == IF seed = NONE THEN e ELSE seed

\* _load_data: the table's ids that the metadata also has, in table order
load_data(t, md) == Filter(t, DOMAIN md)

\* _disable_feature_selection(estimator, optimize_feature_selection)
\*   -> optimize_feature_selection, calc_feature_importance
disable_feature_selection(name, ofs) ==
    IF HasImportances(name)
    THEN [ optimize_feature_selection |-> ofs, calc_feature_importance |-> TRUE ]
    ELSE [ optimize_feature_selection |-> FALSE, calc_feature_importance |-> FALSE ]

\* _set_parameters_and_estimator(..., random_state, ..., classification):
\* the estimator is constructed with the random_state it is handed
set_parameters_and_estimator(name, random_state, classification) ==
    [ called |-> TRUE, classification |-> classification,
      est_random_state |-> random_state ]

\* _select_estimator(estimator, n_jobs, n_estimators): no random_state is
\* among its arguments, so the estimator is constructed unseeded
select_estimator(name) ==
    [ called |-> TRUE, classification |-> FALSE, est_random_state |-> NONE ]

\* what split_optimize_classify may return for a non-empty training table:
\* the columns the final estimator is fitted on (the table's columns, or the
\* selected subset of them, in table order) and the importances table
\* (descending importance, ties in column order; empty when unavailable)
TrainOutcomes(name, ofs, cfi) ==
    LET all == Range(Features)
        subsets == IF ofs /\ HasImportances(name)
                   THEN (SUBSET all) \ {{}}
                   ELSE {all}
    IN  { [ fit_cols |-> Filter(Features, S),
            importances |-> IF cfi /\ HasImportances(name)
                            THEN SortDesc(Filter(Features, S), w)
                            ELSE <<>> ] :
          S \in subsets, w \in [all -> ImportanceValues] }

\* the streams of one run of split_optimize_classify: the split and, when
\* it runs, the hyperparameter search draw from random_state
TrainStreams(random_state, tuning, est_random_state, e) ==
    [ split |-> Stream(random_state, e),
      tune |-> IF tuning THEN Stream(random_state, e) ELSE NONE,
      est |-> Stream(est_random_state, e) ]

\* ------------------------------------------------------- maturity_index
\* the filter left out: every aligned row is kept
control_rows_unfiltered(a, md, control) == a

\* the filter falling back to every row when none matches
control_rows_fallback(a, md, control) ==
    IF Filter(a, { id \in DOMAIN md : md[id] = control }) = <<>>
    THEN a
    ELSE Filter(a, { id \in DOMAIN md : md[id] = control })

\* md_control = metadata[metadata[group_by] == control]
control_rows(a, md, control) ==
    Filter(a, { id \in DOMAIN md : md[id] = control })

\* table_control = table.loc[list(md_control.index.values)]
table_loc(t, ids) == [ i \in DOMAIN ids |-> CHOOSE id \in Range(t) : id = ids[i] ]

Enter(stage) == stages' = Append(stages, stage)

Fail(stage, err) ==
    /\ pc' = "Failed"
    /\ stages' = stages \o <<stage, "Failed">>
    /\ error' = err

\* maturity_index, lines 114-129: select the estimator, align, keep the
\* control rows, train on them
MI_ControlTrainingFit ==
    /\ pc = "Idle"
    /\ \E t \in Tables, md \in Metadatas, name \in MaturityChoices,
          ofs \in BOOLEAN, tuning \in BOOLEAN, stats \in BOOLEAN,
          seed \in Seeds, control \in ControlValues, d \in EntropyDraws :
         LET est == select_estimator(name)
             a == load_data(t, md)
             mdc == control_rows(a, md, control)
             tc == table_loc(t, mdc)
             given == [ called |-> TRUE, rows |-> tc,
                        optimize_feature_selection |-> ofs,
                        calc_feature_importance |-> TRUE,
                        parameter_tuning |-> tuning,
                        classification |-> FALSE,
                        random_state |-> seed, fitted |-> FALSE,
                        fit_cols |-> <<>>, importances |-> <<>> ]
         IN
         /\ entry' = "maturity_index"
         /\ table' = t
         /\ metadata' = md
         /\ args' = [ NoArgs EXCEPT !.estimator = name,
                        !.optimize_feature_selection = ofs,
                        !.parameter_tuning = tuning, !.maz_stats = stats,
                        !.random_state = seed, !.control = control ]
         /\ setup' = est
         /\ flags' = [ optimize_feature_selection |-> ofs,
                       calc_feature_importance |-> TRUE ]
         /\ IF a = <<>>
            THEN \* _load_data: no sample is left
                 /\ Fail("ControlTrainingFit", "ConfigurationError: no samples")
                 /\ UNCHANGED << aligned, md_control, train, rng >>
            ELSE /\ aligned' = a
                 /\ md_control' = mdc
                 /\ IF tc = <<>>
                    THEN \* the training stage is handed an empty table
                         /\ Fail("ControlTrainingFit", "ConfigurationError: empty control")
                         /\ train' = given
                         /\ UNCHANGED rng
                    ELSE /\ \E out \in TrainOutcomes(name, ofs, TRUE) :
                              train' = [ given EXCEPT !.fitted = TRUE,
                                           !.fit_cols = out.fit_cols,
                                           !.importances = out.importances ]
                         /\ rng' = [ r \in Runs |->
                                       TrainStreams(seed, tuning, est.est_random_state, d[r]) ]
                         /\ pc' = "ControlTrainingFit"
                         /\ Enter("ControlTrainingFit")
                         /\ UNCHANGED error
    /\ UNCHANGED << predict_cols, raw_pred, y_pred, maz, report, file, sniffed, readback >>

\* maturity_index, lines 131-135: predict every aligned sample from the
\* columns named by the importances table. predict takes columns by
\* position and rejects a table whose column count differs from the fit's.
MI_FullPopulationPredict ==
    /\ pc = "ControlTrainingFit"
    /\ entry = "maturity_index"
    /\ predict_cols' = train.importances
    /\ IF Len(train.importances) # Len(train.fit_cols)
       THEN /\ Fail("FullPopulationPredict", "ValueError: number of features")
            /\ UNCHANGED << raw_pred, y_pred >>
       ELSE /\ raw_pred' = [ id \in Range(aligned) |->
                               IF train.importances = train.fit_cols
                               THEN "columns as fitted" ELSE "columns permuted" ]
            /\ y_pred' = raw_pred'
            /\ pc' = "FullPopulationPredict"
            /\ Enter("FullPopulationPredict")
            /\ UNCHANGED error
    /\ UNCHANGED << entry, table, metadata, args, flags, setup, aligned,
                    md_control, train, rng, maz, report, file, sniffed, readback >>

\* the scoring moved ahead of the prediction
MI_DeviationScored_early ==
    /\ pc = "ControlTrainingFit"
    /\ entry = "maturity_index"
    /\ maz' = Range(aligned)
    /\ pc' = "DeviationScored"
    /\ Enter("DeviationScored")
    /\ UNCHANGED << entry, table, metadata, args, flags, setup, aligned,
                    md_control, train, rng, predict_cols, raw_pred, y_pred,
                    report, error, file, sniffed, readback >>

\* maturity_index, lines 137-139: _maz_score gives every sample a score
MI_DeviationScored ==
    /\ pc = "FullPopulationPredict"
    /\ maz' = DOMAIN y_pred
    /\ pc' = "DeviationScored"
    /\ Enter("DeviationScored")
    /\ UNCHANGED << entry, table, metadata, args, flags, setup, aligned,
                    md_control, train, rng, predict_cols, raw_pred, y_pred,
                    report, error, file, sniffed, readback >>

\* _visualize_maturity_index(..., maz_stats=maz_stats): the tests on the MAZ
\* scores, when asked for
MI_SignificanceTested ==
    /\ pc = "DeviationScored"
    /\ args.maz_stats
    /\ pc' = "SignificanceTested"
    /\ Enter("SignificanceTested")
    /\ UNCHANGED << entry, table, metadata, args, flags, setup, aligned,
                    md_control, train, rng, predict_cols, raw_pred, y_pred,
                    maz, report, error, file, sniffed, readback >>

\* maturity_index, lines 141-144: the report is written and the call returns
MI_Done ==
    /\ \/ pc = "SignificanceTested"
       \/ pc = "DeviationScored" /\ ~args.maz_stats
    /\ report' = [ written |-> TRUE, title |-> "maturity index",
                   optimize_feature_selection |-> FALSE,
                   maz_stats |-> args.maz_stats ]
    /\ pc' = "Done"
    /\ Enter("Done")
    /\ UNCHANGED << entry, table, metadata, args, flags, setup, aligned,
                    md_control, train, rng, predict_cols, raw_pred, y_pred,
                    maz, error, file, sniffed, readback >>

\* ------------------------------------- classify_samples, regress_samples
\* the classification argument of the call of _set_parameters_and_estimator
\* (classify.py:55 and classify.py:89)
setup_classification(e) ==
    IF e = "classify_samples" THEN TRUE ELSE TRUE

\* the classification argument of the call of split_optimize_classify:
\* left to the default (classification mode) by classify_samples, False at
\* classify.py:97
train_classification(e) ==
    IF e = "classify_samples" THEN TRUE ELSE FALSE

\* the flag handed to _visualize (classify.py:65 and classify.py:100)
visualize_flag(requested, in_use) == in_use

EstimatorChoices(e) ==
    IF e = "classify_samples" THEN ClassifierChoices ELSE RegressorChoices

\* lines 45-50 / 79-84: the call, and _disable_feature_selection
DisableFeatureSelection(e) ==
    /\ pc = "Idle"
    /\ \E t \in Tables, md \in Metadatas, name \in EstimatorChoices(e),
          ofs \in BOOLEAN, tuning \in BOOLEAN, seed \in Seeds :
         /\ entry' = e
         /\ table' = t
         /\ metadata' = md
         /\ args' = [ NoArgs EXCEPT !.estimator = name,
                        !.optimize_feature_selection = ofs,
                        !.parameter_tuning = tuning, !.random_state = seed ]
         /\ flags' = disable_feature_selection(name, ofs)
    /\ pc' = "FeatureSelectionChecked"
    /\ Enter("FeatureSelectionChecked")
    /\ UNCHANGED << setup, aligned, md_control, train, rng, predict_cols,
                    raw_pred, y_pred, maz, report, error, file, sniffed, readback >>

\* lines 52-55 / 86-89: _set_parameters_and_estimator
SetParameters(e) ==
    /\ pc = "FeatureSelectionChecked"
    /\ entry = e
    /\ setup' = set_parameters_and_estimator(
                    args.estimator, args.random_state, setup_classification(e))
    /\ pc' = "ParametersSet"
    /\ Enter("ParametersSet")
    /\ UNCHANGED << entry, table, metadata, args, flags, aligned, md_control,
                    train, rng, predict_cols, raw_pred, y_pred, maz, report,
                    error, file, sniffed, readback >>

\* lines 57-62 / 91-97: split_optimize_classify, which aligns the data itself
Train(e) ==
    /\ pc = "ParametersSet"
    /\ entry = e
    /\ LET a == load_data(table, metadata)
           given == [ called |-> TRUE, rows |-> a,
                      optimize_feature_selection |-> flags.optimize_feature_selection,
                      calc_feature_importance |-> flags.calc_feature_importance,
                      parameter_tuning |-> args.parameter_tuning,
                      classification |-> train_classification(e),
                      random_state |-> args.random_state, fitted |-> FALSE,
                      fit_cols |-> <<>>, importances |-> <<>> ]
       IN  IF a = <<>>
           THEN /\ Fail("Trained", "ConfigurationError: no samples")
                /\ train' = given
                /\ UNCHANGED << aligned, rng >>
           ELSE /\ aligned' = a
                /\ \E out \in TrainOutcomes(args.estimator,
                                            flags.optimize_feature_selection,
                                            flags.calc_feature_importance) :
                     train' = [ given EXCEPT !.fitted = TRUE,
                                  !.fit_cols = out.fit_cols,
                                  !.importances = out.importances ]
                /\ \E d \in EntropyDraws :
                     rng' = [ r \in Runs |->
                                TrainStreams(args.random_state, args.parameter_tuning,
                                             setup.est_random_state, d[r]) ]
                /\ pc' = "Trained"
                /\ Enter("Trained")
                /\ UNCHANGED error
    /\ UNCHANGED << entry, table, metadata, args, flags, setup, md_control,
                    predict_cols, raw_pred, y_pred, maz, report, file,
                    sniffed, readback >>

\* lines 64-65 / 99-100: _visualize, and the call returns
Visualize(e) ==
    /\ pc = "Trained"
    /\ entry = e
    /\ report' = [ written |-> TRUE,
                   title |-> IF e = "classify_samples"
                             THEN "classification predictions"
                             ELSE "regression predictions",
                   optimize_feature_selection |->
                       visualize_flag(args.optimize_feature_selection,
                                      flags.optimize_feature_selection),
                   maz_stats |-> FALSE ]
    /\ pc' = "Done"
    /\ Enter("Done")
    /\ UNCHANGED << entry, table, metadata, args, flags, setup, aligned,
                    md_control, train, rng, predict_cols, raw_pred, y_pred,
                    maz, error, file, sniffed, readback >>

CS_DisableFeatureSelection == DisableFeatureSelection("classify_samples")
CS_SetParameters == SetParameters("classify_samples")
CS_Train == Train("classify_samples")
CS_Visualize == Visualize("classify_samples")

RS_DisableFeatureSelection == DisableFeatureSelection("regress_samples")
RS_SetParameters == SetParameters("regress_samples")
RS_Train == Train("regress_samples")
RS_Visualize == Visualize("regress_samples")

\* ------------------------------------------------------ detect_outliers
\* the one column of the metadata
GroupColumn == "group"
SubsetCategories == {NONE, "", GroupColumn, "nocol"}
SubsetValues == {NONE, "", "ctl", "zzz"}

\* Python's truth value of an optional string
Truthy(x) == x # NONE /\ x # ""

\* the test written with `is not None` on both sides
train_on_subset_not_none(cat, val) == cat # NONE /\ val # NONE

\* `subset_category and subset_value` (line 159)
train_on_subset(cat, val) == Truthy(cat) /\ Truthy(val)

\* `subset_category is not None or subset_value is not None` (line 163)
subset_pair_error(cat, val) == cat # NONE \/ val # NONE

PairError == "ValueError: subset_category and subset_value must both be provided"

\* y_train = sample_md[sample_md[subset_category] == subset_value]
subset_rows(a, md, val) == Filter(a, { id \in DOMAIN md : md[id] = val })

\* line 156: the call, and _load_data
DO_LoadData ==
    /\ pc = "Idle"
    /\ \E t \in Tables, md \in Metadatas, cat \in SubsetCategories,
          val \in SubsetValues, seed \in Seeds :
         /\ entry' = "detect_outliers"
         /\ table' = t
         /\ metadata' = md
         /\ args' = [ NoArgs EXCEPT !.subset_category = cat,
                        !.subset_value = val, !.random_state = seed ]
         /\ IF load_data(t, md) = <<>>
            THEN /\ Fail("Loaded", "ConfigurationError: no samples")
                 /\ UNCHANGED aligned
            ELSE /\ aligned' = load_data(t, md)
                 /\ pc' = "Loaded"
                 /\ Enter("Loaded")
                 /\ UNCHANGED error
    /\ UNCHANGED << flags, setup, md_control, train, rng, predict_cols,
                    raw_pred, y_pred, maz, report, file, sniffed, readback >>

\* lines 158-168: the rows to train on, or the error
DO_SelectTraining ==
    /\ pc = "Loaded"
    /\ LET cat == args.subset_category
           val == args.subset_value
       IN  IF train_on_subset(cat, val)
           THEN IF cat # GroupColumn
                THEN /\ Fail("TrainingSelected", "KeyError")
                     /\ UNCHANGED train
                ELSE /\ train' = [ NoTrain EXCEPT !.called = TRUE,
                                     !.rows = table_loc(table, subset_rows(aligned, metadata, val)) ]
                     /\ pc' = "TrainingSelected"
                     /\ Enter("TrainingSelected")
                     /\ UNCHANGED error
           ELSE IF subset_pair_error(cat, val)
                THEN /\ Fail("TrainingSelected", PairError)
                     /\ UNCHANGED train
                ELSE /\ train' = [ NoTrain EXCEPT !.called = TRUE, !.rows = aligned ]
                     /\ pc' = "TrainingSelected"
                     /\ Enter("TrainingSelected")
                     /\ UNCHANGED error
    /\ UNCHANGED << entry, table, metadata, args, flags, setup, aligned,
                    md_control, rng, predict_cols, raw_pred, y_pred, maz,
                    report, file, sniffed, readback >>

\* the random_state handed to IsolationForest (line 173)
isolation_forest_random_state(random_state) == random_state

\* lines 170-174: IsolationForest(...).fit(X_train); fit rejects an empty table
DO_Fit ==
    /\ pc = "TrainingSelected"
    /\ setup' = [ called |-> TRUE, classification |-> FALSE,
                  est_random_state |-> isolation_forest_random_state(args.random_state) ]
    /\ IF train.rows = <<>>
       THEN /\ Fail("Fitted", "ValueError: 0 samples")
            /\ UNCHANGED << train, rng >>
       ELSE /\ train' = [ train EXCEPT !.fitted = TRUE, !.fit_cols = Features,
                                       !.random_state = args.random_state ]
            /\ \E d \in EntropyDraws :
                 rng' = [ r \in Runs |->
                            [ split |-> NONE, tune |-> NONE,
                              est |-> Stream(setup'.est_random_state, d[r]) ] ]
            /\ pc' = "Fitted"
            /\ Enter("Fitted")
            /\ UNCHANGED error
    /\ UNCHANGED << entry, table, metadata, args, flags, aligned, md_control,
                    predict_cols, raw_pred, y_pred, maz, report, file,
                    sniffed, readback >>

\* what IsolationForest.predict answers: -1 (outlier) or 1 (inlier)
PredictValues == {"-1", "1"}

\* lines 176-178: y_pred = pd.Series(estimator.predict(features), index=features.index)
DO_Predict ==
    /\ pc = "Fitted"
    /\ predict_cols' = Features
    /\ \E p \in [Range(aligned) -> PredictValues] :
         /\ raw_pred' = p
         /\ y_pred' = p
    /\ pc' = "Predicted"
    /\ Enter("Predicted")
    /\ UNCHANGED << entry, table, metadata, args, flags, setup, aligned,
                    md_control, train, rng, maz, report, error, file,
                    sniffed, readback >>

\* y[y == old] = new
mask_assign(y, old, new) == [ id \in DOMAIN y |-> IF y[id] = old THEN new ELSE y[id] ]

\* the second assignment testing the first one's label
relabel_swapped(y) == mask_assign(mask_assign(y, "-1", "False"), "1", "True")

\* lines 180-181
relabel(y) == mask_assign(mask_assign(y, "-1", "True"), "1", "False")

\* lines 179-183: the series is relabelled and returned
DO_Relabel ==
    /\ pc = "Predicted"
    /\ y_pred' = relabel(y_pred)
    /\ pc' = "Done"
    /\ Enter("Done")
    /\ UNCHANGED << entry, table, metadata, args, flags, setup, aligned,
                    md_control, train, rng, predict_cols, raw_pred, maz,
                    report, error, file, sniffed, readback >>

\* ------------------------------------ BooleanSeriesFormat (plugin_setup.py)
TrueChars == <<"T", "r", "u", "e">>
FalseChars == <<"F", "a", "l", "s", "e">>
OutlierChars == <<"o", "u", "t", "l", "i", "e", "r">>

\* the text of a flag of the series
Chars(flag) ==
    CASE flag = "True" -> TrueChars
      [] flag = "False" -> FalseChars
      [] flag = "-1" -> <<"-", "1">>
      [] flag = "1" -> <<"1">>

\* the name the table's index may carry (none, or a name)
IndexLabels == { <<>>, <<"i", "d">> }

\* the characters that make the csv writer quote a field
QuoteTriggers == {TAB, "\"", "\n", "\r"}

RECURSIVE DoubleQuotes(_)
DoubleQuotes(f) ==
    IF f = <<>> THEN <<>>
    ELSE (IF Head(f) = "\"" THEN <<"\"", "\"">> ELSE <<Head(f)>>) \o DoubleQuotes(Tail(f))

\* one field as the csv writer puts it (minimal quoting)
csv_field(f) ==
    IF Range(f) \cap QuoteTriggers # {}
    THEN <<"\"">> \o DoubleQuotes(f) \o <<"\"">>
    ELSE f

\* data.to_csv(fh, sep='\t', header=True): the header row, then one row
\* per element of the series: index, tab, value
to_csv(index, values, label) ==
    << csv_field(label) \o <<TAB>> \o csv_field(OutlierChars) >> \o
    [ i \in DOMAIN index |-> csv_field(index[i]) \o <<TAB>> \o csv_field(values[i]) ]

Whitespace == {SPACE, TAB, "\n", "\r"}

RECURSIVE LStrip(_)
LStrip(l) == IF l # <<>> /\ Head(l) \in Whitespace THEN LStrip(Tail(l)) ELSE l

RECURSIVE RStrip(_)
RStrip(l) ==
    IF l # <<>> /\ l[Len(l)] \in Whitespace THEN RStrip(SubSeq(l, 1, Len(l) - 1)) ELSE l

\* str.strip()
Strip(l) == RStrip(LStrip(l))

RECURSIVE Split(_, _)
\* str.split(sep): the cells between the separators (one cell when none)
Split(l, sep) ==
    IF \A k \in DOMAIN l : l[k] # sep THEN << l >>
    ELSE LET k == CHOOSE k \in DOMAIN l : l[k] = sep /\ \A j \in 1..(k - 1) : l[j] # sep
         IN  << SubSeq(l, 1, k - 1) >> \o Split(SubSeq(l, k + 1, Len(l)), sep)

\* the test of one row in sniff (lines 49-51)
row_ok(line) ==
    LET cells == Split(Strip(line), TAB)
    IN  Len(cells) = 2 /\ cells[2] \in {TrueChars, FalseChars}

\* the loop running over every row of the file
sniff_all_rows(f) ==
    \A k \in 2..Len(f) : row_ok(f[k])

\* BooleanSeriesFormat.sniff: the header line is read and dropped, then at
\* most SniffRows rows are tested
sniff(f) ==
    LET rows == SubSeq(f, 2, Len(f))
        examined == SubSeq(rows, 1, IF Len(rows) < SniffRows THEN Len(rows) ELSE SniffRows)
    IN  \A k \in DOMAIN examined : row_ok(examined[k])

\* the strings pandas.read_csv reads as missing unless told otherwise
NAValues ==
    { <<>>,
      <<"#", "N", "/", "A">>,
      <<"#", "N", "/", "A", " ", "N", "/", "A">>,
      <<"#", "N", "A">>,
      <<"-", "1", ".", "#", "I", "N", "D">>,
      <<"-", "1", ".", "#", "Q", "N", "A", "N">>,
      <<"-", "N", "a", "N">>,
      <<"-", "n", "a", "n">>,
      <<"1", ".", "#", "I", "N", "D">>,
      <<"1", ".", "#", "Q", "N", "A", "N">>,
      <<"N", "/", "A">>,
      <<"N", "A">>,
      <<"N", "U", "L", "L">>,
      <<"N", "a", "N">>,
      <<"n", "/", "a">>,
      <<"n", "a", "n">>,
      <<"n", "u", "l", "l">> }

\* one cell as read_csv(dtype='str') yields it
parse_cell(c) == IF c \in NAValues THEN NAN ELSE c

\* _read_dataframe and _5: read_csv(sep='\t', header=0, dtype='str'), the
\* first column made the index, the first remaining column returned
read_series(f) ==
    LET rows == [ k \in 1..(Len(f) - 1) |-> Split(f[k + 1], TAB) ]
    IN  [ index |-> [ k \in DOMAIN rows |-> parse_cell(rows[k][1]) ],
          values |-> [ k \in DOMAIN rows |-> parse_cell(rows[k][2]) ] ]

\* the series detect_outliers returned: index and values in order
series_index == aligned
series_values == [ i \in DOMAIN aligned |-> Chars(y_pred[aligned[i]]) ]

\* _4: pd.Series -> BooleanSeriesFormat
T_Write ==
    /\ entry = "detect_outliers"
    /\ pc = "Done"
    /\ file = <<>>
    /\ \E label \in IndexLabels : file' = to_csv(series_index, series_values, label)
    /\ UNCHANGED << entry, pc, stages, table, metadata, args, flags, setup,
                    aligned, md_control, train, rng, predict_cols, raw_pred,
                    y_pred, maz, report, error, sniffed, readback >>

\* validation of the written file
T_Sniff ==
    /\ file # <<>>
    /\ sniffed = NONE
    /\ sniffed' = IF sniff(file) THEN "accepted" ELSE "rejected"
    /\ UNCHANGED << entry, pc, stages, table, metadata, args, flags, setup,
                    aligned, md_control, train, rng, predict_cols, raw_pred,
                    y_pred, maz, report, error, file, readback >>

\* _5: BooleanSeriesFormat -> pd.Series
T_Read ==
    /\ file # <<>>
    /\ readback = NoSeries
    /\ readback' = read_series(file)
    /\ UNCHANGED << entry, pc, stages, table, metadata, args, flags, setup,
                    aligned, md_control, train, rng, predict_cols, raw_pred,
                    y_pred, maz, report, error, file, sniffed >>

Next ==
    \/ MI_ControlTrainingFit
    \/ MI_FullPopulationPredict
    \/ MI_DeviationScored
    \/ MI_SignificanceTested
    \/ MI_Done
    \/ CS_DisableFeatureSelection
    \/ CS_SetParameters
    \/ CS_Train
    \/ CS_Visualize
    \/ RS_DisableFeatureSelection
    \/ RS_SetParameters
    \/ RS_Train
    \/ RS_Visualize
    \/ DO_LoadData
    \/ DO_SelectTraining
    \/ DO_Fit
    \/ DO_Predict
    \/ DO_Relabel
    \/ T_Write
    \/ T_Sniff
    \/ T_Read

Spec == Init /\ [][Next]_vars

\* ================================================================ claims
TrainingEntries == {"classify_samples", "regress_samples", "maturity_index"}

IsPrefix(s, t) == Len(s) <= Len(t) /\ \A k \in DOMAIN s : s[k] = t[k]

\* C1: in maturity_index every row handed to split_optimize_classify (the
\* table rows and the metadata rows alike) is a sample whose group_by value
\* equals control.
C1_TrainingRowsAreControl ==
    (entry = "maturity_index" /\ train.called) =>
        /\ \A i \in DOMAIN train.rows :
             /\ train.rows[i] \in DOMAIN metadata
             /\ metadata[train.rows[i]] = args.control
        /\ \A i \in DOMAIN md_control :
             /\ md_control[i] \in DOMAIN metadata
             /\ metadata[md_control[i]] = args.control

\* a model was fitted on the control rows while the aligned data also held a
\* sample of another group
C1_Witness ==
    /\ entry = "maturity_index"
    /\ train.fitted
    /\ \E id \in Range(aligned) : metadata[id] # args.control

\* the order of the stages of maturity_index
MaturityOrder(stats) ==
    IF stats
    THEN << "Idle", "ControlTrainingFit", "FullPopulationPredict",
            "DeviationScored", "SignificanceTested", "Done" >>
    ELSE << "Idle", "ControlTrainingFit", "FullPopulationPredict",
            "DeviationScored", "Done" >>

\* C2: the stages a call of maturity_index has entered are, in order, an
\* initial part of Idle, ControlTrainingFit, FullPopulationPredict,
\* DeviationScored, SignificanceTested (exactly when maz_stats), Done: none
\* out of order, none but SignificanceTested skipped, none twice; a call that
\* raises stops in the stage that raised, and a call that returns has
\* entered them all.
C2_StagesInOrder ==
    entry = "maturity_index" =>
        /\ pc = stages[Len(stages)]
        /\ IsPrefix(IF pc = "Failed" THEN SubSeq(stages, 1, Len(stages) - 1) ELSE stages,
                    MaturityOrder(args.maz_stats))
        /\ pc = "Done" => stages = MaturityOrder(args.maz_stats)

\* a call with maz_stats that returned
C2_Witness ==
    /\ entry = "maturity_index"
    /\ pc = "Done"
    /\ args.maz_stats
    /\ Len(stages) = 6

\* C3: after FullPopulationPredict there is one prediction for every
\* aligned sample, and the columns handed to predict are the columns the
\* estimator was fitted on, in the same order.
C3_PredictColumnsAsFitted ==
    (entry = "maturity_index" /\ pc = "FullPopulationPredict") =>
        /\ DOMAIN raw_pred = Range(aligned)
        /\ predict_cols = train.fit_cols

Given(x) == x # NONE

\* the call of detect_outliers has reached the test of the pair
PairTested == entry = "detect_outliers" /\ "TrainingSelected" \in Range(stages)

C5_OneFlagPerSample ==
    (entry = "detect_outliers" /\ pc = "Done") =>
        /\ DOMAIN y_pred = Range(aligned)
        /\ \A id \in DOMAIN y_pred :
             /\ y_pred[id] \in {"True", "False"}
             /\ y_pred[id] = "True" <=> raw_pred[id] = "-1"
             /\ y_pred[id] = "False" <=> raw_pred[id] = "1"

\* a returned series flags a sample outside the training subset as an
\* outlier and another sample as an inlier
C5_Witness ==
    /\ entry = "detect_outliers"
    /\ pc = "Done"
    /\ args.subset_category = GroupColumn
    /\ \E id \in Range(aligned) \ Range(train.rows) : y_pred[id] = "True"
    /\ \E id \in Range(aligned) : y_pred[id] = "False"

\* C6: when the estimator has no feature importances, the training stage
\* is given feature selection and importance calculation disabled, and the
\* report is given the flag in use.
C6_DisabledWithoutImportances ==
    (entry \in TrainingEntries /\ ~HasImportances(args.estimator)) =>
        /\ train.called =>
             /\ ~train.optimize_feature_selection
             /\ ~train.calc_feature_importance
        /\ (report.written /\ entry # "maturity_index") =>
             report.optimize_feature_selection = flags.optimize_feature_selection

SeededStreams(s) ==
    [ split |-> s, tune |-> IF train.parameter_tuning THEN s ELSE NONE, est |-> s ]

\* C7: with a random_state given, the two runs of a call draw from the same
\* streams, each the given seed: the split, the hyperparameter search and
\* the estimator.
C7_SeedReachesEveryComponent ==
    (entry # NONE /\ train.fitted /\ args.random_state # NONE) =>
        /\ rng[1] = rng[2]
        /\ entry \in TrainingEntries => rng[1] = SeededStreams(args.random_state)
        /\ entry = "detect_outliers" => rng[1].est = args.random_state

\* no aligned sample has the control value in the grouping column
EmptyControl ==
    \A id \in Range(load_data(table, metadata)) : metadata[id] # args.control

C9_SeriesRoundTrip ==
    (file # <<>> /\ sniffed # NONE /\ readback # NoSeries) =>
        /\ Len(file) = Len(aligned) + 1
        /\ \A k \in 2..Len(file) : Len(Split(file[k], TAB)) = 2
        /\ sniffed = "accepted"
        /\ readback.index = series_index
        /\ readback.values = series_values

\* C10: the mode of parameter and estimator setup is the mode of the final
\* training and scoring.
C10_SetupModeIsTrainMode ==
    (entry \in {"classify_samples", "regress_samples"} /\ setup.called /\ train.called) =>
        setup.classification = train.classification

\* ------------------------------------------- sniff on files of any content
\* header lines: the written one, and one that is no two-cell row
HeaderChoices == { <<"i", "d", TAB>> \o OutlierChars, <<"x">> }

\* data rows: a well-formed one, one with a second cell that is no flag,
\* one with a trailing tab (three cells, the last empty), one with an empty
\* first cell
RowChoices ==
    { <<"a", TAB>> \o TrueChars,
      <<"a", TAB, "x">>,
      <<"a", TAB>> \o TrueChars \o <<TAB>>,
      <<TAB>> \o FalseChars }

SniffFiles ==
    { <<h>> \o rows : h \in HeaderChoices,
                      rows \in UNION { [1..n -> RowChoices] : n \in 0..MaxRows } }

\* a file of any content is handed to the format
InitSniff ==
    /\ entry = NONE
    /\ pc = "Idle"
    /\ stages = <<"Idle">>
    /\ table = <<>>
    /\ metadata = << >>
    /\ args = NoArgs
    /\ flags = [ optimize_feature_selection |-> FALSE, calc_feature_importance |-> FALSE ]
    /\ setup = NoSetup
    /\ aligned = <<>>
    /\ md_control = <<>>
    /\ train = NoTrain
    /\ rng = NoRng
    /\ predict_cols = <<>>
    /\ raw_pred = << >>
    /\ y_pred = << >>
    /\ maz = {}
    /\ report = NoReport
    /\ error = NONE
    /\ file \in SniffFiles
    /\ sniffed = NONE
    /\ readback = NoSeries

NextSniff == T_Sniff

SpecSniff == InitSniff /\ [][NextSniff]_vars

\* the rows sniff examines: the first SniffRows lines after the header
ExaminedLines(f) == { k \in 2..Len(f) : k <= SniffRows + 1 }

\* the row as it stands has two tab-separated cells, the second a flag
RawWellFormed(line) ==
    /\ Len(Split(line, TAB)) = 2
    /\ Split(line, TAB)[2] \in {TrueChars, FalseChars}

\* the row without its leading and trailing whitespace has two
\* tab-separated cells, the second a flag
StrippedWellFormed(line) ==
    /\ Len(Split(Strip(line), TAB)) = 2
    /\ Split(Strip(line), TAB)[2] \in {TrueChars, FalseChars}

\* C11 as stated: sniff accepts a file exactly when each of the first five
\* rows after the header splits into two tab-separated cells with the
\* second "True" or "False".
C11_AcceptedIffExaminedRowsWellFormed ==
    sniffed # NONE =>
        (sniffed = "accepted" <=>
            \A k \in ExaminedLines(file) : RawWellFormed(file[k]))

\* C11 amended: sniff accepts a file exactly when each of the first five
\* rows after the header, with its leading and trailing whitespace removed,
\* splits into two tab-separated cells with the second "True" or "False";
\* the header and the rows after the fifth have no part in it.
C11_AcceptedIffExaminedRowsWellFormedStripped ==
    sniffed # NONE =>
        (sniffed = "accepted" <=>
            \A k \in ExaminedLines(file) : StrippedWellFormed(file[k]))

\* a file is accepted whose header is no two-cell row and whose sixth data
\* row is malformed
C11_Witness ==
    /\ sniffed = "accepted"
    /\ Len(file) = SniffRows + 2
    /\ file[1] = <<"x">>
    /\ ~StrippedWellFormed(file[SniffRows + 2])

====
